---- MODULE Spec2Model ----
(***************************************************************************)
(* gitday: a calendar heatmap of one author's commits over the trailing    *)
(* nb_weeks weeks, read from one or more local repositories.               *)
(* The model follows src/src/main.rs top to bottom: open the repositories, *)
(* resolve the user, compute start_time, walk every repository's history   *)
(* into the calendar, print the 7 x nb_weeks grid.                         *)
(*                                                                         *)
(* Dates are day numbers since 1970-01-01 (chrono's Date<Utc>), instants   *)
(* are seconds since the epoch (git2's Time::seconds, i64; every value of  *)
(* the model is far from the i64 limits).                                   *)
(***************************************************************************)
EXTENDS Integers, Sequences, FiniteSets

(***************************************************************************)
(* Bounds of the model.                                                    *)
(***************************************************************************)
MaxWeeks == 2
MaxRepos == 2
MaxHist == 2
HugeWeeks == 14000000

(***************************************************************************)
(* Calendar arithmetic of chrono, on day numbers.                          *)
(***************************************************************************)
SecsPerDay == 86400

NoonSecs == 12 * 3600

U8Max == 255

NL == 10

MinDate == -96465659

Years == 1970..2037

IsLeap(y) == (y % 4 = 0) /\ ((y % 100 # 0) \/ (y % 400 = 0))

LeapsBefore(y) == ((y - 1) \div 4) - ((y - 1) \div 100) + ((y - 1) \div 400)

\* day number of January 1st of year y
DaysBeforeYear(y) == 365 * (y - 1970) + LeapsBefore(y) - LeapsBefore(1970)

DaysBeforeMonth(y, m) ==
    LET cum == <<0, 31, 59, 90, 120, 151, 181, 212, 243, 273, 304, 334>>
    IN  cum[m] + (IF m > 2 /\ IsLeap(y) THEN 1 ELSE 0)

\* NaiveDate::from_ymd
Ymd(y, m, d) == DaysBeforeYear(y) + DaysBeforeMonth(y, m) + d - 1

\* Datelike::year
YearOf(d) == CHOOSE y \in Years : DaysBeforeYear(y) <= d /\ d < DaysBeforeYear(y + 1)

\* Datelike::weekday, as days from Monday: Mon = 0 .. Sun = 6
WeekdayOf(d) == (d + 3) % 7

Sun == 6

\* the Thursday of the Monday-to-Sunday week of d decides its ISO week
IsoThursday(d) == d - WeekdayOf(d) + 3

\* Datelike::iso_week().week(): the week number alone, 1..53
IsoWeekOf(d) == ((IsoThursday(d) - DaysBeforeYear(YearOf(IsoThursday(d)))) \div 7) + 1

\* Monday of ISO week 1 of year y: the week that holds January 4th
IsoWeek1Monday(y) == Ymd(y, 1, 4) - WeekdayOf(Ymd(y, 1, 4))

\* number of ISO weeks of year y, 52 or 53
NIsoWeeks(y) == (IsoWeek1Monday(y + 1) - IsoWeek1Monday(y)) \div 7

\* NaiveDate::from_isoywd_opt: defined for weeks 1..NIsoWeeks(y) only
IsoYwdValid(y, w) == w >= 1 /\ w <= NIsoWeeks(y)

IsoYwd(y, w, wd) == IsoWeek1Monday(y) + 7 * (w - 1) + wd

(***************************************************************************)
(* Inputs of a run.                                                        *)
(***************************************************************************)
\* current dates: a Wednesday, a Sunday, a Monday whose ISO week is week 1
\* of the next year, a Friday whose ISO week is week 53 of the year before
NowDays == {Ymd(2019, 6, 12), Ymd(2019, 6, 16), Ymd(2018, 12, 31), Ymd(2021, 1, 1)}

WeekCounts == (0..MaxWeeks) \cup {HugeWeeks}

UserEmail == "me"

Emails == {<<"me">>, <<"other">>, <<>>}

VARIABLES now, nb_weeks, nb_paths,
          pc, fatal, start_time, calendar, repo, revwalk,
          shift, i, out,
          last, bucketed, missed

vars == <<now, nb_weeks, nb_paths, pc, fatal, start_time,
          calendar, repo, revwalk, shift, i, out, last, bucketed, missed>>

Commit(t, e) == [kind |-> "commit", time |-> t, email |-> e]

NoEntry == [kind |-> "none", time |-> 0, email |-> <<>>]

EmptyMap == [d \in {} |-> 0]

\* HashMap::get(..).unwrap_or(&0)
Get(m, d) == IF d \in DOMAIN m THEN m[d] ELSE 0

Put(m, d, v) == [x \in (DOMAIN m) \cup {d} |-> IF x = d THEN v ELSE m[x]]

Init ==
    /\ now \in NowDays
    /\ nb_weeks \in WeekCounts
    /\ nb_paths \in 1..MaxRepos
    /\ pc = "open"
    /\ fatal = "none"
    /\ start_time = 0
    /\ calendar = EmptyMap
    /\ repo = 1
    /\ revwalk = [left |-> 0, burst |-> FALSE]
    /\ shift = 0
    /\ i = 0
    /\ out = <<>>
    /\ last = NoEntry
    /\ bucketed = EmptyMap
    /\ missed = EmptyMap

Abort(why) ==
    /\ pc' = "abort"
    /\ fatal' = why

(***************************************************************************)
(* Setup: lines 39-70.                                                     *)
(***************************************************************************)
\* lines 42-45: every path is opened before anything else; one failure panics
OpenRepos ==
    /\ pc = "open"
    /\ pc' = "user"
    /\ UNCHANGED <<now, nb_weeks, nb_paths, fatal, start_time,
                   calendar, repo, revwalk, shift, i, out, last, bucketed, missed>>

OpenReposFail ==
    /\ pc = "open"
    /\ Abort("open")
    /\ UNCHANGED <<now, nb_weeks, nb_paths, start_time,
                   calendar, repo, revwalk, shift, i, out, last, bucketed, missed>>

\* lines 47-50: -u, or user.email of the default configuration
ResolveUser ==
    /\ pc = "user"
    /\ pc' = "window"
    /\ UNCHANGED <<now, nb_weeks, nb_paths, fatal, start_time,
                   calendar, repo, revwalk, shift, i, out, last, bucketed, missed>>

ResolveUserFail ==
    /\ pc = "user"
    /\ Abort("user")
    /\ UNCHANGED <<now, nb_weeks, nb_paths, start_time,
                   calendar, repo, revwalk, shift, i, out, last, bucketed, missed>>

\* lines 59-63: the Sunday of ISO week iso_week(today) of the CALENDAR year of today
ThisWeekSunday(today) == IsoYwd(YearOf(today), IsoWeekOf(today), Sun)

SundayValid(today) == IsoYwdValid(YearOf(today), IsoWeekOf(today))

\* line 65: checked_sub_signed(Duration::weeks(nb_weeks))
RewindValid(today, n) == ThisWeekSunday(today) - 7 * n >= MinDate

StartDay(today, n) == ThisWeekSunday(today) - 7 * n

\* start_time at 00:00:00 of the start day
StartTimeMidnight(today, n) == StartDay(today, n) * SecsPerDay

\* lines 55-70: start_time is 12:00:00 UTC of the start day
StartTime(today, n) == StartDay(today, n) * SecsPerDay + NoonSecs

\* line 107: start_time.date()
DateOf(t) == t \div SecsPerDay

FirstDay == DateOf(start_time)

Window ==
    /\ pc = "window"
    /\ SundayValid(now)
    /\ RewindValid(now, nb_weeks)
    /\ start_time' = StartTime(now, nb_weeks)
    /\ pc' = "revwalk"
    /\ UNCHANGED <<now, nb_weeks, nb_paths, fatal,
                   calendar, repo, revwalk, shift, i, out, last, bucketed, missed>>

\* from_isoywd panics on a week the year does not have; line 66 unwraps None
WindowPanic ==
    /\ pc = "window"
    /\ ~ (SundayValid(now) /\ RewindValid(now, nb_weeks))
    /\ Abort(IF SundayValid(now) THEN "underflow" ELSE "isoweek")
    /\ UNCHANGED <<now, nb_weeks, nb_paths, start_time,
                   calendar, repo, revwalk, shift, i, out, last, bucketed, missed>>

(***************************************************************************)
(* The scan: lines 72-105.                                                 *)
(* The revwalk iterator is lazy: every step of the loop of line 78 asks it *)
(* for one more entry.  revwalk.left is the number of entries it has yet   *)
(* to yield; last is the entry the step just taken got from it; missed     *)
(* counts, per UTC day, the user's commits of the window that a break left *)
(* in the iterator; bucketed counts those that reached line 93.            *)
(***************************************************************************)
\* instants of the commits of the histories: one second before start_time
\* (same UTC day), start_time itself, noon of the current date
CommitTimes == {start_time - 1, start_time, now * SecsPerDay + NoonSecs}

\* what the iterator yields: Err, an id whose lookup fails, a commit
Entries ==
    {[kind |-> "err", time |-> 0, email |-> <<>>],
     [kind |-> "nolookup", time |-> 0, email |-> <<>>]}
    \cup {Commit(t, e) : t \in CommitTimes, e \in Emails}

BurstLen == U8Max + 1

\* a repository is a short history of any entries; the repository of the
\* first path may also be one day of BurstLen commits of the user, all at
\* start_time
Yields == IF revwalk.burst THEN {Commit(start_time, <<UserEmail>>)} ELSE Entries

\* the comparison of line 82 turned round
IsOldFlipped(t) == t > start_time

\* line 82
IsOld(t) == t < start_time

\* the day of the commit in a zone 13 hours behind UTC
CommitDateLocal(t) == (t - 13 * 3600) \div SecsPerDay

\* lines 87-91: the UTC day of the commit
CommitDate(t) == t \div SecsPerDay

\* line 85, once the email is known to be present
EmailMatches(e) == UserEmail = e[1]

\* the commits of h that are in the window and by the user, on UTC day d
Matching(h, d) ==
    {k \in 1..Len(h) : /\ h[k].kind = "commit"
                       /\ h[k].time >= start_time
                       /\ h[k].email = <<UserEmail>>
                       /\ CommitDate(h[k].time) = d}

DaysIn(h) == {CommitDate(h[k].time) : k \in {j \in 1..Len(h) : h[j].kind = "commit"}}

AddAll(m, h) ==
    [d \in (DOMAIN m) \cup {x \in DaysIn(h) : Matching(h, x) # {}} |->
        Get(m, d) + Cardinality(Matching(h, d))]

\* lines 73-75: revwalk(), set_sorting(), push_head()
PushHead ==
    /\ pc = "revwalk"
    /\ \/ \E n \in 0..MaxHist : revwalk' = [left |-> n, burst |-> FALSE]
       \/ repo = 1 /\ revwalk' = [left |-> BurstLen, burst |-> TRUE]
    /\ pc' = "walk"
    /\ last' = NoEntry
    /\ UNCHANGED <<now, nb_weeks, nb_paths, fatal, start_time,
                   calendar, repo, shift, i, out, bucketed, missed>>

\* the ? of lines 73-75: main returns the error
PushHeadFail ==
    /\ pc = "revwalk"
    /\ Abort("head")
    /\ last' = NoEntry
    /\ UNCHANGED <<now, nb_weeks, nb_paths, start_time,
                   calendar, repo, revwalk, shift, i, out, bucketed, missed>>

\* the grid printed after each repository
NextRepoRenderEach ==
    /\ pc' = "render"
    /\ repo' = repo

\* line 72: the next repository, or the rendering after the last one
NextRepo ==
    /\ pc' = IF repo < nb_paths THEN "revwalk" ELSE "render"
    /\ repo' = IF repo < nb_paths THEN repo + 1 ELSE repo

\* line 78: the iterator is exhausted
WalkEnd ==
    /\ pc = "walk"
    /\ revwalk.left = 0
    /\ NextRepo
    /\ last' = NoEntry
    /\ UNCHANGED <<now, nb_weeks, nb_paths, fatal, start_time,
                   calendar, revwalk, shift, i, out, bucketed, missed>>

\* line 78: the iterator yields e
Yield(e) ==
    /\ pc = "walk"
    /\ revwalk.left > 0
    /\ e \in Yields
    /\ last' = e

Advance == revwalk' = [revwalk EXCEPT !.left = @ - 1]

\* an entry that is not Ok ends the walk of the repository
WalkSkipEnds ==
    \E e \in Entries :
        /\ Yield(e)
        /\ e.kind \in {"err", "nolookup"}
        /\ revwalk' = [revwalk EXCEPT !.left = 0]
        /\ NextRepo
        /\ UNCHANGED <<now, nb_weeks, nb_paths, fatal, start_time,
                       calendar, shift, i, out, bucketed, missed>>

\* lines 79-80: the two `if let Ok` have no else
WalkSkip ==
    \E e \in Entries :
        /\ Yield(e)
        /\ e.kind \in {"err", "nolookup"}
        /\ Advance
        /\ UNCHANGED <<now, nb_weeks, nb_paths, pc, fatal, start_time,
                       calendar, repo, shift, i, out, bucketed, missed>>

\* lines 82-84: the iterator is dropped with rest still in it
WalkBreak ==
    \E e \in Entries :
        /\ Yield(e)
        /\ e.kind = "commit"
        /\ IsOld(e.time)
        /\ \E n \in 0..(revwalk.left - 1) : \E rest \in [1..n -> Entries] :
              missed' = AddAll(missed, rest)
        /\ revwalk' = [revwalk EXCEPT !.left = 0]
        /\ NextRepo
        /\ UNCHANGED <<now, nb_weeks, nb_paths, fatal, start_time,
                       calendar, shift, i, out, bucketed>>

\* line 85: email() is None, ok_or("unknown") is Err, unwrap() panics
WalkNoEmail ==
    \E e \in Entries :
        /\ Yield(e)
        /\ e.kind = "commit"
        /\ ~ IsOld(e.time)
        /\ e.email = <<>>
        /\ Abort("noemail")
        /\ UNCHANGED <<now, nb_weeks, nb_paths, start_time,
                       calendar, repo, revwalk, shift, i, out, bucketed, missed>>

\* line 85, not the user
WalkOther ==
    \E e \in Entries :
        /\ Yield(e)
        /\ e.kind = "commit"
        /\ ~ IsOld(e.time)
        /\ e.email # <<>>
        /\ ~ EmailMatches(e.email)
        /\ Advance
        /\ UNCHANGED <<now, nb_weeks, nb_paths, pc, fatal, start_time,
                       calendar, repo, shift, i, out, bucketed, missed>>

\* line 95 on a u8: the sum does not fit
Overflows(v) == v + 1 > U8Max

\* line 95 in a build without overflow checks (the release profile): the
\* sum modulo 2^8
Incr(v) == (v + 1) % (U8Max + 1)

\* lines 93-100
Bump(m, d) == IF d \in DOMAIN m THEN Put(m, d, Incr(m[d])) ELSE Put(m, d, 1)

\* lines 85-101, the user's commit: the day counter moves.  When the sum
\* does not fit, this is what a build without overflow checks does and
\* WalkOverflow what a build with them does.
WalkCount ==
    \E e \in Entries :
        /\ Yield(e)
        /\ e.kind = "commit"
        /\ ~ IsOld(e.time)
        /\ e.email # <<>>
        /\ EmailMatches(e.email)
        /\ calendar' = Bump(calendar, CommitDate(e.time))
        /\ bucketed' = Put(bucketed, CommitDate(e.time), Get(bucketed, CommitDate(e.time)) + 1)
        /\ Advance
        /\ UNCHANGED <<now, nb_weeks, nb_paths, pc, fatal, start_time,
                       repo, shift, i, out, missed>>

\* line 95 in a build with overflow checks (the debug profile): the panic
\* "attempt to add with overflow"
WalkOverflow ==
    \E e \in Entries :
        /\ Yield(e)
        /\ e.kind = "commit"
        /\ ~ IsOld(e.time)
        /\ e.email # <<>>
        /\ EmailMatches(e.email)
        /\ Overflows(Get(calendar, CommitDate(e.time)))
        /\ bucketed' = Put(bucketed, CommitDate(e.time), Get(bucketed, CommitDate(e.time)) + 1)
        /\ Abort("overflow")
        /\ UNCHANGED <<now, nb_weeks, nb_paths, start_time,
                       calendar, repo, revwalk, shift, i, out, missed>>

(***************************************************************************)
(* The grid: lines 107-117.                                                *)
(***************************************************************************)
\* lines 22-33: the colour of a count
print_square(commit_nb) ==
    IF commit_nb > 3 THEN 255
    ELSE IF commit_nb > 2 THEN 251
    ELSE IF commit_nb > 1 THEN 249
    ELSE IF commit_nb > 0 THEN 246
    ELSE 238

\* rows and columns exchanged
CellDateTransposed(first_day, s, w) == first_day + (s * 7 + w)

\* lines 110-112
CellDate(first_day, s, w) == first_day + (s + w * 7)

\* lines 109-115: one glyph
RenderSquare ==
    /\ pc = "render"
    /\ i < nb_weeks
    /\ out' = Append(out, print_square(Get(calendar, CellDate(FirstDay, shift, i))))
    /\ i' = i + 1
    /\ UNCHANGED <<now, nb_weeks, nb_paths, pc, fatal, start_time,
                   calendar, repo, revwalk, shift, last, bucketed, missed>>

\* line 116: the row terminator, then the next row or the end
RenderNewline ==
    /\ pc = "render"
    /\ i >= nb_weeks
    /\ out' = Append(out, NL)
    /\ i' = 0
    /\ shift' = shift + 1
    /\ pc' = IF shift + 1 < 7 THEN "render" ELSE "done"
    /\ UNCHANGED <<now, nb_weeks, nb_paths, fatal, start_time,
                   calendar, repo, revwalk, last, bucketed, missed>>

Next ==
    \/ OpenRepos
    \/ OpenReposFail
    \/ ResolveUser
    \/ ResolveUserFail
    \/ Window
    \/ WindowPanic
    \/ PushHead
    \/ PushHeadFail
    \/ WalkEnd
    \/ WalkSkip
    \/ WalkBreak
    \/ WalkNoEmail
    \/ WalkOther
    \/ WalkCount
    \/ WalkOverflow
    \/ RenderSquare
    \/ RenderNewline

Spec == Init /\ [][Next]_vars

(***************************************************************************)
(* Properties.                                                             *)
(***************************************************************************)
\* the day after the last grid day: first day + 7 * nb_weeks
Anchor == FirstDay + 7 * nb_weeks

Scanned == pc \in {"render", "done"}

\* a step of the loop of line 78 in which the iterator yields last'
Yielding == pc = "walk" /\ revwalk.left > 0

Days == (DOMAIN calendar) \cup (DOMAIN bucketed) \cup (DOMAIN missed)

\* C1 as stated: every day key of the calendar is the date of a grid cell,
\* first day <= key < first day + 7 * nb_weeks.
C1_KeysInGrid ==
    \A d \in DOMAIN calendar : FirstDay <= d /\ d < Anchor

\* C1 amended: every day key of the calendar is on or after the first grid
\* day (no upper limit: the day of a commit at or after the anchor is a key).
C1_KeysNotBeforeFirstDay ==
    \A d \in DOMAIN calendar : FirstDay <= d

C1_Witness ==
    /\ pc = "done"
    /\ nb_weeks >= 1
    /\ \E d \in DOMAIN calendar : d >= Anchor
    /\ \E d \in DOMAIN calendar : d < Anchor

\* C2: at the end of the scan the count of every day is the number of the
\* user's commits of the window reachable in the scanned repositories, those
\* the walk visited and those it did not.
C2_CountsEveryReachable ==
    Scanned => \A d \in Days : Get(calendar, d) = Get(bucketed, d) + Get(missed, d)

\* C3: the first yielded commit older than start_time ends the walk of its
\* repository: calendar and counters unchanged, no abort, nothing more is
\* taken from the iterator, and the scan is at the next repository (or at
\* the rendering after the last one).
C3_OldCommitEndsWalk ==
    [][(Yielding /\ last'.kind = "commit" /\ last'.time < start_time)
         => /\ calendar' = calendar
            /\ bucketed' = bucketed
            /\ fatal' = "none"
            /\ revwalk'.left = 0
            /\ pc' = (IF repo < nb_paths THEN "revwalk" ELSE "render")
            /\ repo' = (IF repo < nb_paths THEN repo + 1 ELSE repo)]_vars

C3_Witness ==
    /\ pc = "revwalk"
    /\ repo = 2
    /\ last.kind = "commit" /\ last.time < start_time
    /\ missed # EmptyMap

\* C4: a commit of the window whose author has no email is skipped: the
\* calendar is unchanged, the run does not abort, the walk goes on.
C4_NoEmailSkipped ==
    [][(Yielding /\ last'.kind = "commit" /\ last'.time >= start_time
                 /\ last'.email = <<>>)
         => /\ calendar' = calendar
            /\ fatal' = "none"
            /\ pc' = "walk"
            /\ revwalk'.left = revwalk.left - 1]_vars

\* C5: a run that ends in a fatal error has written nothing, and whatever
\* is written is written after the walk of the last repository.
C5_NoOutputBeforeScanEnds ==
    /\ (pc = "abort" \/ fatal # "none") => out = <<>>
    /\ out # <<>> => (Scanned /\ repo = nb_paths /\ revwalk.left = 0)

C5_Witness ==
    /\ pc = "abort"
    /\ fatal = "head"
    /\ repo = 2
    /\ calendar # EmptyMap

\* C6: once the window is computed, the first day is a Sunday and the anchor
\* first day + 7 * nb_weeks is the latest Sunday not after the current date;
\* the computation fails for no current date.
C6_AnchoredToLatestSunday ==
    /\ fatal # "isoweek"
    /\ start_time # 0 =>
          /\ WeekdayOf(FirstDay) = Sun
          /\ WeekdayOf(Anchor) = Sun
          /\ Anchor <= now
          /\ now - Anchor < 7

GridToken(k) ==
    LET r == (k - 1) \div (nb_weeks + 1)
        w == (k - 1) % (nb_weeks + 1)
    IN  IF w = nb_weeks THEN NL
        ELSE print_square(Get(calendar, FirstDay + r + 7 * w))

\* C8: the output is, in order, 7 rows of nb_weeks glyphs, each row ended by
\* one newline; row r, column w shows the count of first day + r + 7 * w
\* (0 when absent), row 0 being Sundays; rendering leaves the calendar alone.
C8_GridRowsAndColumns ==
    /\ [](Scanned =>
            /\ Len(out) = shift * (nb_weeks + 1) + i
            /\ \A k \in 1..Len(out) : out[k] = GridToken(k)
            /\ WeekdayOf(FirstDay) = Sun
            /\ pc = "done" => Len(out) = 7 * (nb_weeks + 1))
    /\ [][pc = "render" => calendar' = calendar]_vars

C8_Witness ==
    /\ pc = "done"
    /\ nb_weeks = 2
    /\ out[1] = 246
    /\ out[3 * (nb_weeks + 1) + 2] = 249
    /\ out[2] = 238

\* the table of the intensities
Level(n) ==
    CASE n = 0 -> 238
      [] n = 1 -> 246
      [] n = 2 -> 249
      [] n = 3 -> 251
      [] OTHER -> 255

\* C9: the stored count of a day is the number of commits counted for it,
\* whatever that number, the counting never aborts, and the intensity of
\* every cell is the level of that number.
C9_IntensityOfAnyCount ==
    /\ fatal # "overflow"
    /\ \A d \in DOMAIN bucketed : Get(calendar, d) = bucketed[d]
    /\ pc = "done" =>
          \A r \in 0..6 : \A w \in 0..(nb_weeks - 1) :
              out[r * (nb_weeks + 1) + w + 1] = Level(Get(bucketed, FirstDay + r + 7 * w))

\* C10: a yielded entry that is an error, or an id whose lookup fails,
\* changes nothing but the position of the iterator: the calendar and the
\* counters are unchanged, the run does not abort, and the walk of the same
\* repository goes on with the entry that follows.
C10_FailedEntrySkipped ==
    [][(Yielding /\ last'.kind \in {"err", "nolookup"})
         => /\ calendar' = calendar
            /\ bucketed' = bucketed
            /\ missed' = missed
            /\ fatal' = "none"
            /\ pc' = "walk"
            /\ repo' = repo
            /\ revwalk' = [revwalk EXCEPT !.left = @ - 1]
            /\ out' = out]_vars

C10_Witness ==
    /\ pc = "walk"
    /\ last.kind = "nolookup"
    /\ revwalk.left > 0
    /\ calendar # EmptyMap

====
